---- MODULE Spec2Model ----
(***************************************************************************)
(* A model of rust_slserver: the cooperative word game (src/src/coop.rs),  *)
(* its websocket dispatcher (src/src/clientcoop.rs) and the game registry  *)
(* with its idle deletion timer (src/src/main.rs).                         *)
(*                                                                         *)
(* Three specifications:                                                   *)
(*   SpecGame  one CoopGame driven by the calls the dispatcher makes on it *)
(*             (all of them are made under the game's Mutex, so they are   *)
(*             sequential);                                                *)
(*   Spec      the whole server: one thread per connection, the registry   *)
(*             RwLock, each entry's game Mutex, connection counter and     *)
(*             Condvar, one step per scope of a guard;                     *)
(*   SpecLocks the same threads, one step per lock operation.              *)
(***************************************************************************)
EXTENDS Integers, Sequences, FiniteSets, TLC

(***************************************************************************)
(* Bounds.                                                                 *)
(***************************************************************************)
\* connections (threads) the server accepts in SpecGame / Spec
MaxConns == 3
MaxThreads == 2

\* Option<T>::None for a player's send handle; handles are positive numbers
None == 0

(***************************************************************************)
(* Strings.  A string is an atom of the model; Bytes gives its characters  *)
(* so that the regular expressions can be computed on them.                *)
(***************************************************************************)
Lower == {"a", "b", "c", "d", "e", "g", "l", "m", "n", "o", "s", "t", "u", "y"}
Upper == {"C"}
Digit == {"1"}

Bytes(s) ==
    CASE s = "cat"  -> <<"c", "a", "t">>
      [] s = "dog"  -> <<"d", "o", "g">>
      [] s = "dog_" -> <<"d", "o", "g", "_">>
      [] s = "emu"  -> <<"e", "m", "u">>
      [] s = "no"   -> <<"n", "o">>
      [] s = "al"   -> <<"a", "l">>
      [] s = "bo"   -> <<"b", "o">>
      [] s = "cy"   -> <<"c", "y">>
      [] s = "a!"   -> <<"a", "!">>
      [] s = "Cats" -> <<"C", "a", "t", "s">>
      [] OTHER      -> <<>>

Strings == {"cat", "dog", "dog_", "emu", "no", "al", "bo", "cy", "a!", "Cats"}

\* the string with the given characters
FromBytes(b) == CHOOSE s \in Strings : Bytes(s) = b

(***************************************************************************)
(* coop.rs                                                                 *)
(***************************************************************************)
\* enum Guesser
Player(n) == <<"Player", n>>
NoOne == <<"NoOne">>
Gaveup == <<"Gaveup">>

\* enum QuitResult, and the None of Option<QuitResult>
AllGiveup == "AllGiveup"
AllQuit == "AllQuit"
NoResult == "None"

\* CoopPlayer::new
CoopPlayer_new(name, send) == [name |-> name, send |-> send, gaveup |-> FALSE]

\* CoopPlayer::did_quit
did_quit(p) == p.send = None

\* CoopGame::new
CoopGame_new(first_player, words) == [players |-> <<first_player>>, words |-> words]

\* JoinResult
JoinOk(n) == <<"Ok", n>>
JoinTaken(send) == <<"Taken", send>>

\* the loop of try_join from roster position i (1-based; player number i-1):
\* the first player of that name decides
RECURSIVE try_join_scan(_, _, _, _)
try_join_scan(gm, name, send, i) ==
    IF i > Len(gm.players)
    THEN [game |-> [gm EXCEPT !.players = Append(@, CoopPlayer_new(name, send))],
          result |-> JoinOk((Len(gm.players) + 1) - 1)]
    ELSE IF gm.players[i].name = name
         THEN IF did_quit(gm.players[i])
              THEN [game |-> [gm EXCEPT !.players[i].send = send],
                    result |-> JoinOk(i - 1)]
              ELSE [game |-> gm, result |-> JoinTaken(send)]
         ELSE try_join_scan(gm, name, send, i + 1)

\* a try_join that appends whenever the name is not held by a connected player
try_join_AlwaysAppend(gm, name, send) ==
    IF \E i \in 1..Len(gm.players) :
           gm.players[i].name = name /\ ~did_quit(gm.players[i])
    THEN [game |-> gm, result |-> JoinTaken(send)]
    ELSE [game |-> [gm EXCEPT !.players = Append(@, CoopPlayer_new(name, send))],
          result |-> JoinOk(Len(gm.players))]

\* a try_join that never reports Taken: the name of a connected player is
\* appended once more
try_join_NoTaken(gm, name, send) ==
    IF \E i \in 1..Len(gm.players) :
           gm.players[i].name = name /\ did_quit(gm.players[i])
    THEN try_join_scan(gm, name, send, 1)
    ELSE [game |-> [gm EXCEPT !.players = Append(@, CoopPlayer_new(name, send))],
          result |-> JoinOk(Len(gm.players))]

\* CoopGame::try_join
try_join(gm, name, send) == try_join_scan(gm, name, send, 1)

\* an attempt that does not look at the word's current guesser
attempt_Overwrite(gm, player_num, word) ==
    IF word \in DOMAIN gm.words
    THEN [game |-> [gm EXCEPT !.words[word] = Player(player_num)], ret |-> TRUE]
    ELSE [game |-> gm, ret |-> FALSE]

\* CoopGame::attempt
attempt(gm, player_num, word) ==
    IF word \in DOMAIN gm.words /\ gm.words[word] = NoOne
    THEN [game |-> [gm EXCEPT !.words[word] = Player(player_num)], ret |-> TRUE]
    ELSE [game |-> gm, ret |-> FALSE]

\* an allgiveup that resets every word
allgiveup_All(gm) ==
    [gm EXCEPT !.words = [w \in DOMAIN gm.words |-> Gaveup]]

\* CoopGame::allgiveup
allgiveup(gm) ==
    [gm EXCEPT !.words = [w \in DOMAIN gm.words |->
                             IF gm.words[w] = NoOne THEN Gaveup ELSE gm.words[w]]]

\* the loop of player_quit from roster position i: NoResult as soon as a
\* connected player has not given up
RECURSIVE player_quit_scan(_, _, _)
player_quit_scan(players, i, result) ==
    IF i > Len(players)
    THEN result
    ELSE IF ~did_quit(players[i])
         THEN IF ~players[i].gaveup
              THEN NoResult
              ELSE player_quit_scan(players, i + 1, AllGiveup)
         ELSE player_quit_scan(players, i + 1, result)

\* a player_quit that never calls allgiveup
player_quit_NoForfeit(gm, player_num) ==
    LET g1 == [gm EXCEPT !.players[player_num + 1].send = None,
                         !.players[player_num + 1].gaveup = FALSE]
    IN  [game |-> g1, result |-> player_quit_scan(g1.players, 1, AllQuit)]

\* a player_quit that calls allgiveup on AllQuit as well
player_quit_ForfeitOnAllQuit(gm, player_num) ==
    LET g1 == [gm EXCEPT !.players[player_num + 1].send = None,
                         !.players[player_num + 1].gaveup = FALSE]
        result == player_quit_scan(g1.players, 1, AllQuit)
    IN  [game |-> IF result # NoResult THEN allgiveup(g1) ELSE g1,
         result |-> result]

\* a player_quit whose loop still sees the leaving player as it was
player_quit_CountsSelf(gm, player_num) ==
    LET g1 == [gm EXCEPT !.players[player_num + 1].send = None,
                         !.players[player_num + 1].gaveup = FALSE]
        result == player_quit_scan(gm.players, 1, AllQuit)
    IN  [game |-> IF result = AllGiveup THEN allgiveup(g1) ELSE g1,
         result |-> result]

\* CoopGame::player_quit
player_quit(gm, player_num) ==
    LET g1 == [gm EXCEPT !.players[player_num + 1].send = None,
                         !.players[player_num + 1].gaveup = FALSE]
        result == player_quit_scan(g1.players, 1, AllQuit)
    IN  [game |-> IF result = AllGiveup THEN allgiveup(g1) ELSE g1,
         result |-> result]

\* CoopGame::player_giveup
player_giveup(gm, player_num) ==
    LET g1 == [gm EXCEPT !.players[player_num + 1].gaveup = TRUE]
    IN  IF \A i \in 1..Len(g1.players) :
               g1.players[i].gaveup \/ did_quit(g1.players[i])
        THEN [game |-> allgiveup(g1), ret |-> TRUE]
        ELSE [game |-> g1, ret |-> FALSE]

\* CoopGame::player_ungiveup
player_ungiveup(gm, player_num) ==
    [gm EXCEPT !.players[player_num + 1].gaveup = FALSE]

(***************************************************************************)
(* State.                                                                  *)
(***************************************************************************)
VARIABLES
    \* SpecGame: one CoopGame, the last call made on it, the handles given out
    g, last, nconn,
    \* Spec: HashMap of main (gamename -> entry; an entry is named by the
    \* thread that hosted it, 0 is a vacant key) and the holder of its write lock
    coop_games, regWriter,
    \* Spec: the GameEntry of each host thread: game, its Mutex (holder,
    \* poison flag), connections
    game, gameLock, poisoned, connections,
    \* Spec: each connection thread: where it is, the Arc<GameEntry> it holds,
    \* its gamename, the name it asks for, its pnum
    pc, game_entry, gamename, pname, pnum,
    \* both: the sends of the last step, in the order they were made
    sent,
    \* SpecLocks: the threads that hold the read lock of the HashMap of main,
    \* and the holder of the connections Mutex of each GameEntry (0: free)
    regReaders, connLock

gameVars == <<g, last, nconn>>
lockVars == <<regReaders, connLock>>
srvVars == <<coop_games, regWriter, game, gameLock, poisoned, connections,
             pc, game_entry, gamename, pname, pnum>>
vars == <<g, last, nconn, coop_games, regWriter, game, gameLock, poisoned,
          connections, pc, game_entry, gamename, pname, pnum, sent, regReaders,
          connLock>>

(***************************************************************************)
(* Inputs.                                                                 *)
(***************************************************************************)
\* player names a URL or a name frame can carry, and a frame NAMEREGEX rejects
Names == {"al", "bo", "cy"}
BadName == "a!"
\* the name in the URL of a host; host_coop and main treat every name alike,
\* and the players that join draw theirs from all the names
HostNames == {"al"}
\* the words of attempts: two hosted words, one no game holds, one ATTEMPT rejects
AttemptWords == {"cat", "dog", "emu", "no"}

\* the text of a chat frame
ChatText == "hi"
\* frames of a connected player that are no command: an attempt with a word
\* ATTEMPT does not capture, and a command the protocol does not have
OtherFrames == {":attempt no", ":hello"}

\* HashMap::insert
MapInsert(m, k, v) == [x \in DOMAIN m \cup {k} |-> IF x = k THEN v ELSE m[x]]
EmptyMap == [x \in {} |-> NoOne]

(***************************************************************************)
(* clientcoop.rs: the regular expressions.                                 *)
(***************************************************************************)
\* WORDREGEX r"[a-z]{3,6}_?" under is_match: not anchored, so it matches when
\* three lowercase letters in a row occur anywhere
WORDREGEX_is_match(s) ==
    LET b == Bytes(s)
    IN  \E i \in 1..(Len(b) - 2) : \A j \in i..(i + 2) : b[j] \in Lower

\* NAMEREGEX r"^[a-zA-Z0-9]{1,10}$"
NAMEREGEX_is_match(s) ==
    LET b == Bytes(s)
    IN  /\ Len(b) >= 1
        /\ Len(b) <= 10
        /\ \A i \in 1..Len(b) : b[i] \in Lower \cup Upper \cup Digit

\* ATTEMPT r"^:attempt ([a-z]{3,6})$", on the message ":attempt " + word
ATTEMPT_captures(word) ==
    LET b == Bytes(word)
    IN  /\ Len(b) >= 3
        /\ Len(b) <= 6
        /\ \A i \in 1..Len(b) : b[i] \in Lower

\* the loop of host_coop over the tokens of the first message, from token i:
\* the word map, or a panic at the first token WORDREGEX does not match
RECURSIVE host_coop_words(_, _, _)
host_coop_words(msg, i, words) ==
    IF i > Len(msg)
    THEN [panic |-> FALSE, words |-> words]
    ELSE IF WORDREGEX_is_match(msg[i])
         THEN LET b == Bytes(msg[i])
              IN  IF b[Len(b)] = "_"
                  THEN host_coop_words(msg, i + 1,
                           MapInsert(words, FromBytes(SubSeq(b, 1, Len(b) - 1)),
                                     Player(0)))
                  ELSE host_coop_words(msg, i + 1, MapInsert(words, msg[i], NoOne))
         ELSE [panic |-> TRUE, words |-> words]

\* host_coop: the game of the host, unless the word list panics
host_coop(send, msg, name) ==
    LET r == host_coop_words(msg, 1, EmptyMap)
    IN  [panic |-> r.panic,
         game |-> CoopGame_new(CoopPlayer_new(name, send), r.words)]

(***************************************************************************)
(* clientcoop.rs: what is sent.  A frame is the tuple of its space-        *)
(* separated tokens.  A send is a record: the handles it goes to, the      *)
(* frame, and, for the frames on_playerjoin sends to a new player, the     *)
(* game state they spell out.                                              *)
(***************************************************************************)
\* name + "_", the mark of a player that has quit
Marked(name) ==
    CASE name = "al" -> "al_"
      [] name = "bo" -> "bo_"
      [] name = "cy" -> "cy_"

NoState == [players |-> <<>>, words |-> {}, attempts |-> {}, giveups |-> <<>>]

\* send_msg: one frame to one handle
send_msg(send, msg) == [to |-> {send}, msg |-> msg, state |-> NoState]

\* an announce_msg that does not look at except
announce_msg_All(gm, msg, except) ==
    [to |-> {gm.players[i].send :
                i \in {j \in 1..Len(gm.players) : gm.players[j].send # None}},
     msg |-> msg, state |-> NoState]

\* announce_msg: the frame goes to the send of every player that has one and
\* whose number is not except; except is {n} for Some(n) and {} for None.
\* What send_dataframe returns is dropped.
announce_msg(gm, msg, except) ==
    [to |-> {gm.players[i].send :
                i \in {j \in 1..Len(gm.players) :
                          (j - 1) \notin except /\ gm.players[j].send # None}},
     msg |-> msg, state |-> NoState]

\* on_allgiveup
on_allgiveup(gm) == announce_msg(gm, <<":allgiveup">>, {})

\* on_playerjoin 124-130: ":giveup name" for the players from roster position
\* i on that have given up, in roster order
RECURSIVE giveup_msgs(_, _)
giveup_msgs(players, i) ==
    IF i > Len(players)
    THEN <<>>
    ELSE IF players[i].gaveup
         THEN <<<<":giveup", players[i].name>>>> \o giveup_msgs(players, i + 1)
         ELSE giveup_msgs(players, i + 1)

\* on_playerjoin 96-130: the frames for the new player.  The word list and the
\* ":attempt" frames come in the order of the HashMap, which the frames do not
\* depend on otherwise: they are kept as sets.
playerjoin_msgs(gm) ==
    [players |-> [i \in 1..Len(gm.players) |->
                     IF did_quit(gm.players[i])
                     THEN Marked(gm.players[i].name)
                     ELSE gm.players[i].name],
     words |-> DOMAIN gm.words,
     attempts |-> {<<":attempt", k, gm.players[gm.words[k][2] + 1].name>> :
                      k \in {w \in DOMAIN gm.words : gm.words[w][1] = "Player"}}
                  \cup {<<":attempt", k, "_">> :
                           k \in {w \in DOMAIN gm.words : gm.words[w] = Gaveup}},
     giveups |-> giveup_msgs(gm.players, 1)]

\* an on_playerjoin that leaves the given-up players out of the state
on_playerjoin_NoGiveups(player_num, gm) ==
    <<announce_msg(gm, <<":join", gm.players[player_num + 1].name>>, {player_num}),
      [to |-> {gm.players[player_num + 1].send}, msg |-> <<"state">>,
       state |-> [playerjoin_msgs(gm) EXCEPT !.giveups = <<>>]]>>

\* on_playerjoin, every send to the new player succeeding
on_playerjoin(player_num, gm) ==
    <<announce_msg(gm, <<":join", gm.players[player_num + 1].name>>, {player_num}),
      [to |-> {gm.players[player_num + 1].send}, msg |-> <<"state">>,
       state |-> playerjoin_msgs(gm)]>>

\* an attempt branch that announces the attempt whatever came of it
game_loop_attempt_Always(gm, pnum_, word) ==
    LET r == attempt(gm, pnum_, word)
    IN  [game |-> r.game,
         out |-> <<announce_msg(r.game,
                       <<":attempt", word, r.game.players[pnum_ + 1].name>>,
                       {pnum_})>>]

\* game_loop 184-194: an attempt ATTEMPT has captured
game_loop_attempt(gm, pnum_, word) ==
    LET r == attempt(gm, pnum_, word)
    IN  [game |-> r.game,
         out |-> IF r.ret
                 THEN <<announce_msg(r.game,
                            <<":attempt", word, r.game.players[pnum_ + 1].name>>,
                            {pnum_})>>
                 ELSE <<>>]

\* a ":giveup" that never calls on_allgiveup
game_loop_giveup_Silent(gm, pnum_) ==
    [game |-> player_giveup(gm, pnum_).game,
     out |-> <<announce_msg(gm, <<":giveup", gm.players[pnum_ + 1].name>>, {pnum_})>>]

\* game_loop 195-205: ":giveup"
game_loop_giveup(gm, pnum_) ==
    LET first == announce_msg(gm, <<":giveup", gm.players[pnum_ + 1].name>>, {pnum_})
        r == player_giveup(gm, pnum_)
    IN  [game |-> r.game,
         out |-> IF r.ret THEN <<first, on_allgiveup(r.game)>> ELSE <<first>>]

\* game_loop 206-214: ":ungiveup"
game_loop_ungiveup(gm, pnum_) ==
    [game |-> player_ungiveup(gm, pnum_),
     out |-> <<announce_msg(gm, <<":ungiveup", gm.players[pnum_ + 1].name>>, {pnum_})>>]

\* game_loop 215-222: ":chat " + chatmsg
game_loop_chat(gm, pnum_, chatmsg) ==
    [game |-> gm,
     out |-> <<announce_msg(gm, <<":chat", gm.players[pnum_ + 1].name, chatmsg>>,
                            {pnum_})>>]

\* on_disconnect 235-248
on_disconnect(pnum_, gm) ==
    LET first == announce_msg(gm, <<":quit", gm.players[pnum_ + 1].name>>, {pnum_})
        r == player_quit(gm, pnum_)
    IN  [game |-> r.game,
         result |-> r.result,
         out |-> IF r.result = AllGiveup
                 THEN <<first, on_allgiveup(r.game)>>
                 ELSE <<first>>]

(***************************************************************************)
(* SpecGame: one game, from host_coop on, under the calls of join_coop     *)
(* (try_join), game_loop (attempt, player_giveup, player_ungiveup) and     *)
(* on_disconnect (player_quit).  A thread calls with its own pnum, so the  *)
(* caller of attempt, giveup, ungiveup and quit is a connected player.     *)
(***************************************************************************)
NoGame == [players |-> <<>>, words |-> EmptyMap]
NoCall == [op |-> "none", pnum |-> 0, arg |-> "", ret |-> FALSE]

\* first messages of a host in SpecGame: word lists, one with a token too
\* short for a word, one with a token that has a capital letter in it
GameHostMsgs ==
    {<<"cat">>, <<"cat", "dog">>, <<"cat", "dog_">>, <<"cat", "no">>, <<"cat", "Cats">>}

Threads == 1..MaxThreads
Codes == {"k1", "k2"}

InitSrv ==
    /\ coop_games = [c \in Codes |-> 0]
    /\ regWriter = 0
    /\ game = [t \in Threads |-> NoGame]
    /\ gameLock = [t \in Threads |-> 0]
    /\ poisoned = [t \in Threads |-> FALSE]
    /\ connections = [t \in Threads |-> 0]
    /\ pc = [t \in Threads |-> "idle"]
    /\ game_entry = [t \in Threads |-> 0]
    /\ gamename = [t \in Threads |-> ""]
    /\ pname = [t \in Threads |-> ""]
    /\ pnum = [t \in Threads |-> 0]
    /\ regReaders = {}
    /\ connLock = [t \in Threads |-> 0]

InitGame ==
    /\ \E name \in HostNames, msg \in GameHostMsgs :
           LET r == host_coop(1, msg, name)
           IN  ~r.panic /\ g = r.game
    /\ last = NoCall
    /\ nconn = 1
    /\ sent = <<>>
    /\ InitSrv

Connected(gm) == {n \in 0..(Len(gm.players) - 1) : ~did_quit(gm.players[n + 1])}

\* join_coop 156-165, every send succeeding
GJoin ==
    /\ nconn < MaxConns
    /\ \E name \in Names :
           LET r == try_join(g, name, nconn + 1)
           IN  /\ g' = r.game
               /\ last' = [op |-> "try_join", pnum |-> 0, arg |-> name,
                           ret |-> r.result]
               /\ sent' = IF r.result[1] = "Ok"
                          THEN on_playerjoin(r.result[2], r.game)
                          ELSE <<send_msg(nconn + 1, <<":taken">>)>>
    /\ nconn' = nconn + 1
    /\ UNCHANGED <<srvVars, lockVars>>

GAttempt ==
    /\ \E p \in Connected(g), w \in {x \in AttemptWords : ATTEMPT_captures(x)} :
           LET r == game_loop_attempt(g, p, w)
           IN  /\ g' = r.game
               /\ last' = [op |-> "attempt", pnum |-> p, arg |-> w,
                           ret |-> attempt(g, p, w).ret]
               /\ sent' = r.out
    /\ UNCHANGED nconn
    /\ UNCHANGED <<srvVars, lockVars>>

GGiveup ==
    /\ \E p \in Connected(g) :
           LET r == game_loop_giveup(g, p)
           IN  /\ g' = r.game
               /\ last' = [op |-> "giveup", pnum |-> p, arg |-> "",
                           ret |-> player_giveup(g, p).ret]
               /\ sent' = r.out
    /\ UNCHANGED nconn
    /\ UNCHANGED <<srvVars, lockVars>>

GUngiveup ==
    /\ \E p \in Connected(g) :
           LET r == game_loop_ungiveup(g, p)
           IN  /\ g' = r.game
               /\ last' = [op |-> "ungiveup", pnum |-> p, arg |-> "", ret |-> FALSE]
               /\ sent' = r.out
    /\ UNCHANGED nconn
    /\ UNCHANGED <<srvVars, lockVars>>

GChat ==
    /\ \E p \in Connected(g) :
           LET r == game_loop_chat(g, p, ChatText)
           IN  /\ g' = r.game
               /\ last' = [op |-> "chat", pnum |-> p, arg |-> ChatText, ret |-> FALSE]
               /\ sent' = r.out
    /\ UNCHANGED nconn
    /\ UNCHANGED <<srvVars, lockVars>>

\* game_loop 184, 195, 206, 215: a frame no branch takes
GOther ==
    /\ \E p \in Connected(g), f \in OtherFrames :
           /\ g' = g
           /\ last' = [op |-> "other", pnum |-> p, arg |-> f, ret |-> FALSE]
           /\ sent' = <<>>
    /\ UNCHANGED nconn
    /\ UNCHANGED <<srvVars, lockVars>>

GQuit ==
    /\ \E p \in Connected(g) :
           LET r == on_disconnect(p, g)
           IN  /\ g' = r.game
               /\ last' = [op |-> "quit", pnum |-> p, arg |-> "", ret |-> r.result]
               /\ sent' = r.out
    /\ UNCHANGED nconn
    /\ UNCHANGED <<srvVars, lockVars>>

NextGame ==
    \/ GJoin
    \/ GAttempt
    \/ GGiveup
    \/ GUngiveup
    \/ GChat
    \/ GOther
    \/ GQuit

SpecGame == InitGame /\ [][NextGame]_vars

(***************************************************************************)
(* Spec: the server.  main accepts connections one after the other and     *)
(* spawns a thread for each; thread t serves the t-th connection.          *)
(***************************************************************************)
\* first messages of a host in Spec: a word list, and one with a bad token
HostMsgs == {<<"cat", "dog_">>, <<"cat", "no">>}
\* names in URLs and name frames in Spec
SrvNames == {"al", "bo"}

Init ==
    /\ g = NoGame
    /\ last = NoCall
    /\ nconn = 0
    /\ sent = <<>>
    /\ InitSrv

\* where a thread has stopped by panicking
PanicPCs == {"panic_host_recv", "panic_host_words", "panic_get", "panic_name_recv",
             "panic_badname", "panic_taken", "panic_join", "panic_poisoned"}
\* where a thread has returned
EndPCs == {"done", "saved", "destroyed"}

\* a thread that has stopped holds nothing any more: its Arc<GameEntry>,
\* gamename and pnum are dropped with its stack
Drop(f, t, zero) == [f EXCEPT ![t] = zero]

\* a Mutex::lock that does not wait for the holder
LockGame_NoWait(t, e, next) ==
    /\ pc' = [pc EXCEPT ![t] = next]
    /\ gameLock' = [gameLock EXCEPT ![e] = t]
    /\ UNCHANGED <<game_entry, gamename, pnum>>

\* Mutex::lock().unwrap() on the game of entry e by thread t, going to pc
\* value next: blocks while the Mutex is held; on a poisoned Mutex the guard
\* comes back inside the error, unwrap panics and the guard is dropped
LockGame(t, e, next) ==
    /\ gameLock[e] = 0
    /\ IF poisoned[e]
       THEN /\ pc' = [pc EXCEPT ![t] = "panic_poisoned"]
            /\ game_entry' = Drop(game_entry, t, 0)
            /\ gamename' = Drop(gamename, t, "")
            /\ pnum' = Drop(pnum, t, 0)
            /\ UNCHANGED gameLock
       ELSE /\ pc' = [pc EXCEPT ![t] = next]
            /\ gameLock' = [gameLock EXCEPT ![e] = t]
            /\ UNCHANGED <<game_entry, gamename, pnum>>

\* main 95-98: the accept loop hands connections to threads in order
Spawned(t) == \A u \in 1..(t - 1) : pc[u] # "idle"

\* main 109-123, URLAction::Host(name): host_coop, the GameEntry, the first
\* generate_gamename
HostCoop(t) ==
    /\ pc[t] = "idle"
    /\ Spawned(t)
    /\ \/ \* receive.recv_dataframe().unwrap() on a failed read
          /\ pc' = [pc EXCEPT ![t] = "panic_host_recv"]
          /\ UNCHANGED <<game, connections, game_entry, gamename>>
       \/ \E name \in HostNames, msg \in HostMsgs :
              LET r == host_coop(t, msg, name)
              IN  IF r.panic
                  THEN /\ pc' = [pc EXCEPT ![t] = "panic_host_words"]
                       /\ UNCHANGED <<game, connections, game_entry, gamename>>
                  ELSE /\ game' = [game EXCEPT ![t] = r.game]
                       /\ connections' = [connections EXCEPT ![t] = 1]
                       /\ game_entry' = [game_entry EXCEPT ![t] = t]
                       /\ \E c \in Codes : gamename' = [gamename EXCEPT ![t] = c]
                       /\ pc' = [pc EXCEPT ![t] = "host_wlock"]
    /\ UNCHANGED <<coop_games, regWriter, gameLock, poisoned, pname, pnum, gameVars, lockVars>>
    /\ sent' = <<>>

\* main 126-127: coop_games.write()
HostWrite(t) ==
    /\ pc[t] = "host_wlock"
    /\ regWriter = 0
    /\ regWriter' = t
    /\ pc' = [pc EXCEPT ![t] = "host_entry"]
    /\ UNCHANGED <<coop_games, game, gameLock, poisoned, connections, game_entry,
                   gamename, pname, pnum, gameVars, lockVars>>
    /\ sent' = <<>>

\* an Entry that is always Vacant
Vacant_Always(games, name) == TRUE

\* HashMap::entry(name) is Entry::Vacant
Vacant(games, name) == games[name] = 0

\* main 128-141: one turn of the loop under the write lock
HostEntry(t) ==
    /\ pc[t] = "host_entry"
    /\ regWriter = t
    /\ IF Vacant(coop_games, gamename[t])
       THEN /\ coop_games' = [coop_games EXCEPT ![gamename[t]] = game_entry[t]]
            /\ regWriter' = 0
            /\ pc' = [pc EXCEPT ![t] = "host_sendname"]
            /\ UNCHANGED gamename
       ELSE /\ \E c \in Codes : gamename' = [gamename EXCEPT ![t] = c]
            /\ UNCHANGED <<coop_games, regWriter, pc>>
    /\ UNCHANGED <<game, gameLock, poisoned, connections, game_entry, pname, pnum, gameVars, lockVars>>
    /\ sent' = <<>>

\* main 143, send_gamename 79: game.lock().unwrap()
SendGamenameLock(t) ==
    /\ pc[t] = "host_sendname"
    /\ LockGame(t, game_entry[t], "host_send")
    /\ UNCHANGED <<coop_games, regWriter, game, poisoned, connections, pname, gameVars, lockVars>>
    /\ sent' = <<>>

\* send_gamename 80-82, main 144: send to players[0] (the result of the send
\* is dropped), unlock; the host is player 0
SendGamename(t) ==
    /\ pc[t] = "host_send"
    /\ gameLock[game_entry[t]] = t
    /\ gameLock' = [gameLock EXCEPT ![game_entry[t]] = 0]
    /\ pnum' = [pnum EXCEPT ![t] = 0]
    /\ pc' = [pc EXCEPT ![t] = "loop"]
    /\ sent' = <<send_msg(game[game_entry[t]].players[1].send, <<gamename[t]>>)>>
    /\ UNCHANGED <<coop_games, regWriter, game, poisoned, connections, game_entry,
                   gamename, pname, gameVars, lockVars>>

\* main 146-150, URLAction::Join(gamename): coop_games.read(), get, unwrap
JoinGet(t) ==
    /\ pc[t] = "idle"
    /\ Spawned(t)
    /\ regWriter = 0
    /\ \E c \in Codes :
           IF coop_games[c] = 0
           THEN /\ pc' = [pc EXCEPT ![t] = "panic_get"]
                /\ UNCHANGED <<game_entry, gamename>>
           ELSE /\ game_entry' = [game_entry EXCEPT ![t] = coop_games[c]]
                /\ gamename' = [gamename EXCEPT ![t] = c]
                /\ pc' = [pc EXCEPT ![t] = "join_notify"]
    /\ UNCHANGED <<coop_games, regWriter, game, gameLock, poisoned, connections,
                   pname, pnum, gameVars, lockVars>>
    /\ sent' = <<>>

\* the threads in condvar.wait_timeout of entry e
Waiting(e) == {u \in Threads : pc[u] = "waiting" /\ game_entry[u] = e}

\* main 152: idle_condvar.notify_all(); a woken thread finds timed_out() false
JoinNotify(t) ==
    /\ pc[t] = "join_notify"
    /\ LET woken == Waiting(game_entry[t])
       IN  /\ pc' = [u \in Threads |->
                        IF u = t THEN "join_inc"
                        ELSE IF u \in woken THEN "saved" ELSE pc[u]]
           /\ game_entry' = [u \in Threads |->
                                IF u \in woken THEN 0 ELSE game_entry[u]]
           /\ gamename' = [u \in Threads |->
                              IF u \in woken THEN "" ELSE gamename[u]]
           /\ pnum' = [u \in Threads |-> IF u \in woken THEN 0 ELSE pnum[u]]
    /\ UNCHANGED <<coop_games, regWriter, game, gameLock, poisoned, connections,
                   pname, gameVars, lockVars>>
    /\ sent' = <<>>

\* main 153: *connections.lock().unwrap() += 1 on a u8; then join_coop sends
\* ":ok" and drops the result of the send.  The 256th connection would
\* overflow the u8; the guard keeps the counter below that.
JoinInc(t) ==
    /\ pc[t] = "join_inc"
    /\ connections[game_entry[t]] < 255
    /\ connections' = [connections EXCEPT ![game_entry[t]] = @ + 1]
    /\ pc' = [pc EXCEPT ![t] = "join_name"]
    /\ sent' = <<send_msg(t, <<":ok">>)>>
    /\ UNCHANGED <<coop_games, regWriter, game, gameLock, poisoned, game_entry,
                   gamename, pname, pnum, gameVars, lockVars>>

\* join_coop 148-154: the next frame of the name loop
JoinName(t) ==
    /\ pc[t] = "join_name"
    /\ \/ \* frame.unwrap() on a failed read
          /\ pc' = [pc EXCEPT ![t] = "panic_name_recv"]
          /\ game_entry' = Drop(game_entry, t, 0)
          /\ gamename' = Drop(gamename, t, "")
          /\ sent' = <<>>
          /\ UNCHANGED pname
       \/ \E name \in SrvNames \cup {BadName} :
              IF ~NAMEREGEX_is_match(name)
              THEN \/ \* ":badname" is sent
                      /\ sent' = <<send_msg(t, <<":badname">>)>>
                      /\ UNCHANGED <<pc, pname, game_entry, gamename>>
                   \/ \* send_msg(":badname").unwrap() on a failed send
                      /\ pc' = [pc EXCEPT ![t] = "panic_badname"]
                      /\ game_entry' = Drop(game_entry, t, 0)
                      /\ gamename' = Drop(gamename, t, "")
                      /\ sent' = <<>>
                      /\ UNCHANGED pname
              ELSE /\ pname' = [pname EXCEPT ![t] = name]
                   /\ pc' = [pc EXCEPT ![t] = "join_lock"]
                   /\ sent' = <<>>
                   /\ UNCHANGED <<game_entry, gamename>>
    /\ UNCHANGED <<coop_games, regWriter, game, gameLock, poisoned, connections,
                   pnum, gameVars, lockVars>>

\* join_coop 155: game.lock().unwrap()
JoinLock(t) ==
    /\ pc[t] = "join_lock"
    /\ LockGame(t, game_entry[t], "join_try")
    /\ UNCHANGED <<coop_games, regWriter, game, poisoned, connections, pname, gameVars, lockVars>>
    /\ sent' = <<>>

\* join_coop 156-165 and main 158: try_join under the lock.  Ok: on_playerjoin
\* announces and sends the snapshot; if a send of the snapshot fails, join_coop
\* returns the error (the guard is dropped on the return) and main's unwrap
\* panics.  Taken: send_msg(":taken").unwrap() panics on a failed send while
\* the guard is alive, which poisons the Mutex.
JoinTry(t) ==
    /\ pc[t] = "join_try"
    /\ gameLock[game_entry[t]] = t
    /\ LET e == game_entry[t]
           r == try_join(game[e], pname[t], t)
       IN  IF r.result[1] = "Ok"
           THEN /\ game' = [game EXCEPT ![e] = r.game]
                /\ UNCHANGED poisoned
                /\ \/ /\ pnum' = [pnum EXCEPT ![t] = r.result[2]]
                      /\ pc' = [pc EXCEPT ![t] = "loop"]
                      /\ sent' = on_playerjoin(r.result[2], r.game)
                      /\ UNCHANGED <<game_entry, gamename>>
                   \/ \* a send to the new player fails, after the announce
                      /\ pc' = [pc EXCEPT ![t] = "panic_join"]
                      /\ game_entry' = Drop(game_entry, t, 0)
                      /\ gamename' = Drop(gamename, t, "")
                      /\ sent' = <<on_playerjoin(r.result[2], r.game)[1]>>
                      /\ UNCHANGED pnum
           ELSE /\ UNCHANGED <<game, pnum>>
                /\ \/ /\ pc' = [pc EXCEPT ![t] = "join_name"]
                      /\ sent' = <<send_msg(r.result[2], <<":taken">>)>>
                      /\ UNCHANGED <<poisoned, game_entry, gamename>>
                   \/ /\ pc' = [pc EXCEPT ![t] = "panic_taken"]
                      /\ poisoned' = [poisoned EXCEPT ![e] = TRUE]
                      /\ game_entry' = Drop(game_entry, t, 0)
                      /\ gamename' = Drop(gamename, t, "")
                      /\ sent' = <<>>
    /\ gameLock' = [gameLock EXCEPT ![game_entry[t]] = 0]
    /\ pname' = [pname EXCEPT ![t] = ""]
    /\ UNCHANGED <<coop_games, regWriter, connections, gameVars, lockVars>>

\* game_loop 181-184, 195, 206, 215: the next frame.  A frame that is no
\* command of the protocol (a malformed attempt among them) is skipped.
GameLoop(t) ==
    /\ pc[t] = "loop"
    /\ \/ \* try!(frame) on a failed read: game_loop returns to main 167-169
          pc' = [pc EXCEPT ![t] = "disc_lock"]
       \/ \* an attempt ATTEMPT captures, :giveup, :ungiveup or :chat
          pc' = [pc EXCEPT ![t] = "cmd_lock"]
       \/ \* anything else
          /\ \E w \in AttemptWords : ~ATTEMPT_captures(w)
          /\ UNCHANGED pc
    /\ UNCHANGED <<coop_games, regWriter, game, gameLock, poisoned, connections,
                   game_entry, gamename, pname, pnum, gameVars, lockVars>>
    /\ sent' = <<>>

\* game_loop 186, 196, 207, 216: game.lock().unwrap()
CmdLock(t) ==
    /\ pc[t] = "cmd_lock"
    /\ LockGame(t, game_entry[t], "cmd_body")
    /\ UNCHANGED <<coop_games, regWriter, game, poisoned, connections, pname, gameVars, lockVars>>
    /\ sent' = <<>>

\* game_loop 187-222: the command under the lock.  Which command the frame
\* held is no one else's business before it is applied, so it is drawn here.
CmdBody(t) ==
    /\ pc[t] = "cmd_body"
    /\ gameLock[game_entry[t]] = t
    /\ LET e == game_entry[t]
       IN  \E r \in {game_loop_attempt(game[e], pnum[t], w) :
                         w \in {x \in AttemptWords : ATTEMPT_captures(x)}}
                   \cup {game_loop_giveup(game[e], pnum[t]),
                         game_loop_ungiveup(game[e], pnum[t]),
                         game_loop_chat(game[e], pnum[t], ChatText)} :
               /\ game' = [game EXCEPT ![e] = r.game]
               /\ sent' = r.out
    /\ gameLock' = [gameLock EXCEPT ![game_entry[t]] = 0]
    /\ pc' = [pc EXCEPT ![t] = "loop"]
    /\ UNCHANGED <<coop_games, regWriter, poisoned, connections, game_entry,
                   gamename, pname, pnum, gameVars, lockVars>>

\* on_disconnect 234: game.lock().unwrap()
DisconnectLock(t) ==
    /\ pc[t] = "disc_lock"
    /\ LockGame(t, game_entry[t], "disc_body")
    /\ UNCHANGED <<coop_games, regWriter, game, poisoned, connections, pname, gameVars, lockVars>>
    /\ sent' = <<>>

\* on_disconnect 235-248: announce the quit, player_quit, unlock
OnDisconnect(t) ==
    /\ pc[t] = "disc_body"
    /\ gameLock[game_entry[t]] = t
    /\ LET r == on_disconnect(pnum[t], game[game_entry[t]])
       IN  /\ game' = [game EXCEPT ![game_entry[t]] = r.game]
           /\ sent' = r.out
    /\ gameLock' = [gameLock EXCEPT ![game_entry[t]] = 0]
    /\ pc' = [pc EXCEPT ![t] = "dec"]
    /\ UNCHANGED <<coop_games, regWriter, poisoned, connections, game_entry,
                   gamename, pname, pnum, gameVars, lockVars>>

\* main 174-181: lock connections, decrement; at zero wait_timeout gives the
\* lock up and waits, all in one; otherwise the thread returns
Decrement(t) ==
    /\ pc[t] = "dec"
    /\ connections' = [connections EXCEPT ![game_entry[t]] = @ - 1]
    /\ IF connections'[game_entry[t]] = 0
       THEN /\ pc' = [pc EXCEPT ![t] = "waiting"]
            /\ UNCHANGED <<game_entry, gamename>>
       ELSE /\ pc' = [pc EXCEPT ![t] = "done"]
            /\ game_entry' = Drop(game_entry, t, 0)
            /\ gamename' = Drop(gamename, t, "")
    /\ pnum' = Drop(pnum, t, 0)
    /\ UNCHANGED <<coop_games, regWriter, game, gameLock, poisoned, pname, gameVars, lockVars>>
    /\ sent' = <<>>

\* main 181-183: GAME_KILL_TIMER_MILLIS pass without a notify
TimedOut(t) ==
    /\ pc[t] = "waiting"
    /\ pc' = [pc EXCEPT ![t] = "timed_out"]
    /\ UNCHANGED <<coop_games, regWriter, game, gameLock, poisoned, connections,
                   game_entry, gamename, pname, pnum, gameVars, lockVars>>
    /\ sent' = <<>>

\* main 181-183, 188: Condvar::wait_timeout may return early without a notify
\* (a spurious wakeup); timed_out() is false then as well
SpuriousWakeup(t) ==
    /\ pc[t] = "waiting"
    /\ pc' = [pc EXCEPT ![t] = "saved"]
    /\ game_entry' = Drop(game_entry, t, 0)
    /\ gamename' = Drop(gamename, t, "")
    /\ UNCHANGED <<coop_games, regWriter, game, gameLock, poisoned, connections,
                   pname, pnum, gameVars, lockVars>>
    /\ sent' = <<>>

\* HashMap::remove of the thread's gamename
RemoveGame(games, name) == [games EXCEPT ![name] = 0]

\* main 182-186: the connections guard that wait_timeout gave back is not
\* bound by the pattern (_, r), so it is dropped at once; then
\* coop_games.write(), remove(&gamename), unlock
Destroy(t) ==
    /\ pc[t] = "timed_out"
    /\ regWriter = 0
    /\ coop_games' = RemoveGame(coop_games, gamename[t])
    /\ pc' = [pc EXCEPT ![t] = "destroyed"]
    /\ game_entry' = Drop(game_entry, t, 0)
    /\ gamename' = Drop(gamename, t, "")
    /\ UNCHANGED <<regWriter, game, gameLock, poisoned, connections, pname, pnum,
                   gameVars, lockVars>>
    /\ sent' = <<>>

Next ==
    \/ \E t \in Threads : HostCoop(t)
    \/ \E t \in Threads : HostWrite(t)
    \/ \E t \in Threads : HostEntry(t)
    \/ \E t \in Threads : SendGamenameLock(t)
    \/ \E t \in Threads : SendGamename(t)
    \/ \E t \in Threads : JoinGet(t)
    \/ \E t \in Threads : JoinNotify(t)
    \/ \E t \in Threads : JoinInc(t)
    \/ \E t \in Threads : JoinName(t)
    \/ \E t \in Threads : JoinLock(t)
    \/ \E t \in Threads : JoinTry(t)
    \/ \E t \in Threads : GameLoop(t)
    \/ \E t \in Threads : CmdLock(t)
    \/ \E t \in Threads : CmdBody(t)
    \/ \E t \in Threads : DisconnectLock(t)
    \/ \E t \in Threads : OnDisconnect(t)
    \/ \E t \in Threads : Decrement(t)
    \/ \E t \in Threads : TimedOut(t)
    \/ \E t \in Threads : SpuriousWakeup(t)
    \/ \E t \in Threads : Destroy(t)

Spec == Init /\ [][Next]_vars

(***************************************************************************)
(* SpecLocks: the same threads, one step per lock operation.  Every        *)
(* lock(), read() and write() is a step of its own, and so is the code     *)
(* between it and the drop of its guard; what the code under a guard does  *)
(* to the game is left out, and both ways it can come out are taken.       *)
(***************************************************************************)
\* the variables no step of SpecLocks changes
lockRest == <<game, pname, pnum, sent, gameVars>>

\* thread t goes on to pc value next, keeping its Arc<GameEntry> and gamename
Go(t, next) ==
    /\ pc' = [pc EXCEPT ![t] = next]
    /\ UNCHANGED <<game_entry, gamename>>

\* thread t stops at pc value next, by a panic or by returning
Stop(t, next) ==
    /\ pc' = [pc EXCEPT ![t] = next]
    /\ game_entry' = Drop(game_entry, t, 0)
    /\ gamename' = Drop(gamename, t, "")

\* game.lock().unwrap() of thread t, going to pc value next
LGameLock(t, next) ==
    /\ gameLock[game_entry[t]] = 0
    /\ IF poisoned[game_entry[t]]
       THEN Stop(t, "panic_poisoned") /\ UNCHANGED gameLock
       ELSE Go(t, next) /\ gameLock' = [gameLock EXCEPT ![game_entry[t]] = t]
    /\ UNCHANGED <<coop_games, regWriter, regReaders, connLock, poisoned,
                   connections, lockRest>>

\* the end of a scope of the game's guard, thread t going on to next
LGameUnlock(t, next) ==
    /\ gameLock[game_entry[t]] = t
    /\ gameLock' = [gameLock EXCEPT ![game_entry[t]] = 0]
    /\ Go(t, next)
    /\ UNCHANGED <<coop_games, regWriter, regReaders, connLock, poisoned,
                   connections, lockRest>>

\* connections.lock() of thread t
LConnLock(t, next) ==
    /\ connLock[game_entry[t]] = 0
    /\ connLock' = [connLock EXCEPT ![game_entry[t]] = t]
    /\ Go(t, next)
    /\ UNCHANGED <<coop_games, regWriter, regReaders, gameLock, poisoned,
                   connections, lockRest>>

\* coop_games.write() of thread t
LRegWrite(t, next) ==
    /\ regWriter = 0
    /\ regReaders = {}
    /\ regWriter' = t
    /\ Go(t, next)
    /\ UNCHANGED <<coop_games, regReaders, gameLock, connLock, poisoned,
                   connections, lockRest>>

\* main 109-123: host_coop (which takes no lock), the GameEntry
LHostCoop(t) ==
    /\ pc[t] = "idle"
    /\ Spawned(t)
    /\ \/ /\ \E w \in {"panic_host_recv", "panic_host_words"} : Stop(t, w)
          /\ UNCHANGED connections
       \/ /\ connections' = [connections EXCEPT ![t] = 1]
          /\ pc' = [pc EXCEPT ![t] = "host_wlock"]
          /\ game_entry' = [game_entry EXCEPT ![t] = t]
          /\ \E c \in Codes : gamename' = [gamename EXCEPT ![t] = c]
    /\ UNCHANGED <<coop_games, regWriter, regReaders, gameLock, connLock, poisoned,
                   lockRest>>

\* main 126-127
LHostWrite(t) ==
    /\ pc[t] = "host_wlock"
    /\ LRegWrite(t, "host_entry")

\* a loop of main 128-141 that leaves with the write guard still alive
LHostEntry_KeepsGuard(t) ==
    /\ pc[t] = "host_entry"
    /\ regWriter = t
    /\ IF Vacant(coop_games, gamename[t])
       THEN /\ coop_games' = [coop_games EXCEPT ![gamename[t]] = game_entry[t]]
            /\ Go(t, "host_sendname")
       ELSE /\ \E c \in Codes : gamename' = [gamename EXCEPT ![t] = c]
            /\ UNCHANGED <<coop_games, pc, game_entry>>
    /\ UNCHANGED <<regWriter, regReaders, gameLock, connLock, poisoned,
                   connections, lockRest>>

\* main 128-141: one turn of the loop; the write guard is dropped at 141
LHostEntry(t) ==
    /\ pc[t] = "host_entry"
    /\ regWriter = t
    /\ IF Vacant(coop_games, gamename[t])
       THEN /\ coop_games' = [coop_games EXCEPT ![gamename[t]] = game_entry[t]]
            /\ regWriter' = 0
            /\ Go(t, "host_sendname")
       ELSE /\ \E c \in Codes : gamename' = [gamename EXCEPT ![t] = c]
            /\ UNCHANGED <<coop_games, regWriter, pc, game_entry>>
    /\ UNCHANGED <<regReaders, gameLock, connLock, poisoned, connections, lockRest>>

\* send_gamename 79, 80-82
LSendGamenameLock(t) ==
    /\ pc[t] = "host_sendname"
    /\ LGameLock(t, "host_send")

LSendGamename(t) ==
    /\ pc[t] = "host_send"
    /\ LGameUnlock(t, "loop")

\* main 100, 146: the URL of the request is a join
LJoinUrl(t) ==
    /\ pc[t] = "idle"
    /\ Spawned(t)
    /\ Go(t, "join_rlock")
    /\ UNCHANGED <<coop_games, regWriter, regReaders, gameLock, connLock, poisoned,
                   connections, lockRest>>

\* main 147: coop_games.read()
LJoinRead(t) ==
    /\ pc[t] = "join_rlock"
    /\ regWriter = 0
    /\ regReaders' = regReaders \cup {t}
    /\ Go(t, "join_get")
    /\ UNCHANGED <<coop_games, regWriter, gameLock, connLock, poisoned,
                   connections, lockRest>>

\* main 148-150: get, unwrap, clone; the read guard is dropped at 150, or by
\* the panic of unwrap (a read guard does not poison the RwLock)
LJoinGet(t) ==
    /\ pc[t] = "join_get"
    /\ t \in regReaders
    /\ regReaders' = regReaders \ {t}
    /\ \E c \in Codes :
           IF coop_games[c] = 0
           THEN Stop(t, "panic_get")
           ELSE /\ game_entry' = [game_entry EXCEPT ![t] = coop_games[c]]
                /\ gamename' = [gamename EXCEPT ![t] = c]
                /\ pc' = [pc EXCEPT ![t] = "join_notify"]
    /\ UNCHANGED <<coop_games, regWriter, gameLock, connLock, poisoned,
                   connections, lockRest>>

\* main 152: notify_all; a thread it wakes has to take the connections lock
\* again before wait_timeout returns
LJoinNotify(t) ==
    /\ pc[t] = "join_notify"
    /\ pc' = [u \in Threads |->
                 IF u = t THEN "join_clock"
                 ELSE IF u \in Waiting(game_entry[t]) THEN "wake_saved" ELSE pc[u]]
    /\ UNCHANGED <<coop_games, regWriter, regReaders, gameLock, connLock, poisoned,
                   connections, game_entry, gamename, lockRest>>

\* main 153: connections.lock(); += 1 and the drop of the temporary guard
LJoinConnLock(t) ==
    /\ pc[t] = "join_clock"
    /\ LConnLock(t, "join_inc")

LJoinInc(t) ==
    /\ pc[t] = "join_inc"
    /\ connLock[game_entry[t]] = t
    /\ connections[game_entry[t]] < 255
    /\ connections' = [connections EXCEPT ![game_entry[t]] = @ + 1]
    /\ connLock' = [connLock EXCEPT ![game_entry[t]] = 0]
    /\ Go(t, "join_name")
    /\ UNCHANGED <<coop_games, regWriter, regReaders, gameLock, poisoned, lockRest>>

\* join_coop 148-154: a frame with a name, or a panic of an unwrap
LJoinName(t) ==
    /\ pc[t] = "join_name"
    /\ \/ \E w \in {"panic_name_recv", "panic_badname"} : Stop(t, w)
       \/ Go(t, "join_lock")
    /\ UNCHANGED <<coop_games, regWriter, regReaders, gameLock, connLock, poisoned,
                   connections, lockRest>>

\* join_coop 155
LJoinLock(t) ==
    /\ pc[t] = "join_lock"
    /\ LGameLock(t, "join_try")

\* join_coop 156-165, main 158: Ok, Taken, or a failed send; the send of
\* ":taken" panics with the guard alive and poisons the Mutex
LJoinTry(t) ==
    /\ pc[t] = "join_try"
    /\ gameLock[game_entry[t]] = t
    /\ gameLock' = [gameLock EXCEPT ![game_entry[t]] = 0]
    /\ \/ /\ \E w \in {"loop", "join_name"} : Go(t, w)
          /\ UNCHANGED poisoned
       \/ /\ Stop(t, "panic_join")
          /\ UNCHANGED poisoned
       \/ /\ poisoned' = [poisoned EXCEPT ![game_entry[t]] = TRUE]
          /\ Stop(t, "panic_taken")
    /\ UNCHANGED <<coop_games, regWriter, regReaders, connLock, connections, lockRest>>

\* game_loop 181-184: a frame with a command, or the end of the stream
LGameLoop(t) ==
    /\ pc[t] = "loop"
    /\ \E w \in {"cmd_lock", "disc_lock"} : Go(t, w)
    /\ UNCHANGED <<coop_games, regWriter, regReaders, gameLock, connLock, poisoned,
                   connections, lockRest>>

\* game_loop 186-222
LCmdLock(t) ==
    /\ pc[t] = "cmd_lock"
    /\ LGameLock(t, "cmd_body")

LCmdBody(t) ==
    /\ pc[t] = "cmd_body"
    /\ LGameUnlock(t, "loop")

\* on_disconnect 234-248
LDisconnectLock(t) ==
    /\ pc[t] = "disc_lock"
    /\ LGameLock(t, "disc_body")

LOnDisconnect(t) ==
    /\ pc[t] = "disc_body"
    /\ LGameUnlock(t, "dec_lock")

\* main 174
LDecLock(t) ==
    /\ pc[t] = "dec_lock"
    /\ LConnLock(t, "dec")

\* main 175-181: at zero wait_timeout gives the lock up and waits, all in
\* one; otherwise the guard lives to the end of the block, where the thread
\* returns without taking another lock
LDecrement(t) ==
    /\ pc[t] = "dec"
    /\ connLock[game_entry[t]] = t
    /\ connections' = [connections EXCEPT ![game_entry[t]] = @ - 1]
    /\ connLock' = [connLock EXCEPT ![game_entry[t]] = 0]
    /\ IF connections'[game_entry[t]] = 0 THEN Go(t, "waiting") ELSE Stop(t, "done")
    /\ UNCHANGED <<coop_games, regWriter, regReaders, gameLock, poisoned, lockRest>>

\* main 181: the time is up, or the wait ends early without a notify
LWaitEnds(t) ==
    /\ pc[t] = "waiting"
    /\ \E w \in {"wake_timeout", "wake_saved"} : Go(t, w)
    /\ UNCHANGED <<coop_games, regWriter, regReaders, gameLock, connLock, poisoned,
                   connections, lockRest>>

\* main 181: wait_timeout takes the connections lock again before it returns
LWakeLock(t) ==
    /\ pc[t] \in {"wake_timeout", "wake_saved"}
    /\ LConnLock(t, IF pc[t] = "wake_timeout" THEN "woke_timeout" ELSE "woke_saved")

\* main 182-183, 188: the guard wait_timeout gave back is not bound by the
\* pattern (_, r) and is dropped at the end of the let
LWakeUnlock(t) ==
    /\ pc[t] \in {"woke_timeout", "woke_saved"}
    /\ connLock[game_entry[t]] = t
    /\ connLock' = [connLock EXCEPT ![game_entry[t]] = 0]
    /\ IF pc[t] = "woke_timeout" THEN Go(t, "timed_out") ELSE Stop(t, "saved")
    /\ UNCHANGED <<coop_games, regWriter, regReaders, gameLock, poisoned,
                   connections, lockRest>>

\* main 184
LDestroyWrite(t) ==
    /\ pc[t] = "timed_out"
    /\ LRegWrite(t, "destroy")

\* main 185-187: remove, and the drop of the write guard
LDestroy(t) ==
    /\ pc[t] = "destroy"
    /\ regWriter = t
    /\ coop_games' = RemoveGame(coop_games, gamename[t])
    /\ regWriter' = 0
    /\ Stop(t, "destroyed")
    /\ UNCHANGED <<regReaders, gameLock, connLock, poisoned, connections, lockRest>>

NextLocks ==
    \/ \E t \in Threads : LHostCoop(t)
    \/ \E t \in Threads : LHostWrite(t)
    \/ \E t \in Threads : LHostEntry(t)
    \/ \E t \in Threads : LSendGamenameLock(t)
    \/ \E t \in Threads : LSendGamename(t)
    \/ \E t \in Threads : LJoinUrl(t)
    \/ \E t \in Threads : LJoinRead(t)
    \/ \E t \in Threads : LJoinGet(t)
    \/ \E t \in Threads : LJoinNotify(t)
    \/ \E t \in Threads : LJoinConnLock(t)
    \/ \E t \in Threads : LJoinInc(t)
    \/ \E t \in Threads : LJoinName(t)
    \/ \E t \in Threads : LJoinLock(t)
    \/ \E t \in Threads : LJoinTry(t)
    \/ \E t \in Threads : LGameLoop(t)
    \/ \E t \in Threads : LCmdLock(t)
    \/ \E t \in Threads : LCmdBody(t)
    \/ \E t \in Threads : LDisconnectLock(t)
    \/ \E t \in Threads : LOnDisconnect(t)
    \/ \E t \in Threads : LDecLock(t)
    \/ \E t \in Threads : LDecrement(t)
    \/ \E t \in Threads : LWaitEnds(t)
    \/ \E t \in Threads : LWakeLock(t)
    \/ \E t \in Threads : LWakeUnlock(t)
    \/ \E t \in Threads : LDestroyWrite(t)
    \/ \E t \in Threads : LDestroy(t)

SpecLocks == Init /\ [][NextLocks]_vars

(***************************************************************************)
(* Claims about the registry and the idle timer (Spec).                    *)
(***************************************************************************)
\* where a thread's connection is open and counted: a host from the insert of
\* its entry on, a joiner from its increment on, until the read that fails
LivePCs == {"host_sendname", "host_send", "join_name", "join_lock", "join_try",
            "loop", "cmd_lock", "cmd_body"}
\* where a thread is counted in connections of its entry
CountedPCs == LivePCs \cup {"host_wlock", "host_entry", "disc_lock", "disc_body", "dec"}
\* where a thread is in, or has just left, wait_timeout without having been notified
TimerPCs == {"waiting", "timed_out"}

\* C1: no session with a live connection is ever deleted: an entry never
\* leaves the registry while a connection is open on it (for a joiner: once
\* its on_connect, the notify and the increment, has completed).
C1_NoLiveSessionDeleted ==
    [][\A c \in Codes :
           (coop_games[c] # 0 /\ coop_games'[c] = 0)
               => ~\E t \in Threads :
                      pc[t] \in LivePCs /\ game_entry[t] = coop_games[c]]_vars

\* C2: a connect that arrives before the timeout cancels the pending removal:
\* an entry leaves the registry only with its counter at zero.
C2_RemovalOnlyAtZero ==
    [][\A c \in Codes :
           (coop_games[c] # 0 /\ coop_games'[c] = 0)
               => connections[coop_games[c]] = 0]_vars

\* C3: no execution has two deletion timers pending for the same session.
C3_OneDeletionTimer ==
    \A e \in Threads :
        Cardinality({t \in Threads : pc[t] \in TimerPCs /\ game_entry[t] = e}) <= 1

\* C4: code allocation is an atomic check-and-insert: an entry is inserted
\* only under a code that is vacant at that moment, an occupied code never
\* changes its entry other than by removal, and no entry is in the registry
\* under two codes.
C4_AtomicAllocation ==
    [][/\ \A c \in Codes :
              (coop_games'[c] # coop_games[c] /\ coop_games'[c] # 0)
                  => coop_games[c] = 0
       /\ \A c, d \in Codes :
              (c # d /\ coop_games'[c] # 0) => coop_games'[c] # coop_games'[d]]_vars

\* C4, its case: while one host is registered and connected, another host
\* holds the write lock and finds its gamename taken
C4_Witness ==
    \E t, u \in Threads :
        /\ pc[t] = "host_entry"
        /\ regWriter = t
        /\ coop_games[gamename[t]] = u
        /\ u # t
        /\ pc[u] = "loop"

\* C5: the connection counter of an entry equals the number of connections
\* attached to it.
C5_CounterCountsConnections ==
    \A e \in Threads :
        connections[e] =
            Cardinality({t \in Threads : pc[t] \in CountedPCs /\ game_entry[t] = e})

\* C6: a join of an unknown gamename does not panic the connection handler.
C6_LookupMissDoesNotPanic ==
    \A t \in Threads : pc[t] # "panic_get"

\* C7: a failure on one connection never stops another connection: no thread
\* panics on a game Mutex that another thread's failed send has poisoned.
C7_FailuresContained ==
    \A t \in Threads : pc[t] # "panic_poisoned"

(***************************************************************************)
(* Claims about the game (SpecGame).                                       *)
(***************************************************************************)
IsPlayer(gs) == gs[1] = "Player"

\* C8: attempt returns true and sets the word to Player(player_num) exactly
\* when the word is in the game and NoOne has it; otherwise it returns false
\* and changes nothing; a word that has a claimant keeps it.
C8_AttemptClaimsOnce ==
    [][last'.op = "attempt" =>
          LET w == last'.arg
              p == last'.pnum
          IN  /\ IF w \in DOMAIN g.words /\ g.words[w] = NoOne
                 THEN /\ last'.ret = TRUE
                      /\ g'.words = [g.words EXCEPT ![w] = Player(p)]
                      /\ g'.players = g.players
                 ELSE /\ last'.ret = FALSE
                      /\ g' = g
              /\ \A x \in DOMAIN g.words :
                     IsPlayer(g.words[x]) => g'.words[x] = g.words[x]]_vars

\* C8, its case: a second attempt, by another player, at a word that is in
\* the game and claimed, has returned false
C8_Witness ==
    /\ last.op = "attempt"
    /\ last.ret = FALSE
    /\ last.arg \in DOMAIN g.words
    /\ IsPlayer(g.words[last.arg])
    /\ g.words[last.arg] # Player(last.pnum)

\* C9: a word only moves forward, from NoOne to Player(i) or from NoOne to
\* Gaveup, whatever the operation; the set of words does not change.
C9_WordsOnlyForward ==
    [][/\ DOMAIN g'.words = DOMAIN g.words
       /\ \A w \in DOMAIN g.words :
              \/ g'.words[w] = g.words[w]
              \/ /\ g.words[w] = NoOne
                 /\ g'.words[w] = Gaveup \/ IsPlayer(g'.words[w])]_vars

\* C9, its case: a player has taken the give-up back after the round was
\* forfeited; the forfeited word and the claimed word are as they were
C9_Witness ==
    /\ last.op = "ungiveup"
    /\ ~g.players[last.pnum + 1].gaveup
    /\ \E w \in DOMAIN g.words : g.words[w] = Gaveup
    /\ \E w \in DOMAIN g.words : g.words[w] = Player(1)

\* roster positions of players of that name who have quit
QuitSlots(gm, name) ==
    {i \in 1..Len(gm.players) : gm.players[i].name = name /\ did_quit(gm.players[i])}

\* C10: a player who has quit and joins again under the same name gets the
\* roster position back, connected and with gaveup false, and the roster
\* keeps its length; meanwhile no operation moves or renames a player.
C10_RejoinRecoversIndex ==
    [][/\ Len(g'.players) >= Len(g.players)
       /\ \A i \in 1..Len(g.players) : g'.players[i].name = g.players[i].name
       /\ \A i, j \in 1..Len(g'.players) :
              i # j => g'.players[i].name # g'.players[j].name
       /\ \A i \in 1..Len(g'.players) :
              did_quit(g'.players[i]) => ~g'.players[i].gaveup
       /\ (last'.op = "try_join" /\ QuitSlots(g, last'.arg) # {}) =>
              \A i \in QuitSlots(g, last'.arg) :
                  /\ last'.ret = JoinOk(i - 1)
                  /\ ~did_quit(g'.players[i])
                  /\ ~g'.players[i].gaveup
                  /\ Len(g'.players) = Len(g.players)]_vars

\* C10, its case: the host has quit and has joined again, on a new
\* connection, as player 0, while another player is in the roster and the
\* round was forfeited in between
C10_Witness ==
    /\ last.op = "try_join"
    /\ last.ret = JoinOk(0)
    /\ Len(g.players) = 2
    /\ g.players[1].send = 3
    /\ ~g.players[1].gaveup
    /\ \E w \in DOMAIN g.words : g.words[w] = Gaveup

\* the connected players of gm have all given up, and there is one
AllConnectedGaveUp(gm) ==
    /\ Connected(gm) # {}
    /\ \A n \in Connected(gm) : gm.players[n + 1].gaveup

\* the word map after every NoOne has become Gaveup
Forfeited(words) ==
    [w \in DOMAIN words |-> IF words[w] = NoOne THEN Gaveup ELSE words[w]]

\* C11: after any sequence of give-ups, quits and joins, whenever at least one
\* player is connected and every connected player has given up, no word is
\* NoOne; and a player_giveup called in such a state changes no word.
C11_AllGaveUpConverges ==
    [][/\ AllConnectedGaveUp(g') => \A w \in DOMAIN g'.words : g'.words[w] # NoOne
       /\ (last'.op = "giveup" /\ AllConnectedGaveUp(g)) => g'.words = g.words]_vars

\* C11 witness: of three players one has quit, and the give-up of the last of
\* the two others has forfeited a word
C11_Witness ==
    /\ last.op = "giveup"
    /\ last.ret = TRUE
    /\ Len(g.players) = 3
    /\ Cardinality(Connected(g)) = 2
    /\ AllConnectedGaveUp(g)
    /\ \E w \in DOMAIN g.words : g.words[w] = Gaveup

\* C12: player_quit returns AllQuit exactly when no player of the roster is
\* connected after it, and a player_quit that returns AllQuit leaves every
\* word as it was.
C12_AllQuitDetection ==
    [][last'.op = "quit" =>
          /\ (last'.ret = AllQuit) <=> (Connected(g') = {})
          /\ last'.ret = AllQuit => g'.words = g.words]_vars

\* C12 witness: the last of two players has quit while a word was NoOne
C12_Witness ==
    /\ last.op = "quit"
    /\ last.ret = AllQuit
    /\ Len(g.players) >= 2
    /\ \E w \in DOMAIN g.words : g.words[w] = NoOne

\* C13: player_quit of player p returns AllGiveup, and turns every NoOne word
\* into Gaveup, exactly when some other player is connected and every other
\* connected player has given up, whatever p's own gaveup flag was; it returns
\* None and changes no word when another connected player has not given up.
C13_QuitTriggersAllGiveup ==
    [][last'.op = "quit" =>
          LET rest == Connected(g) \ {last'.pnum}
              allGave == /\ rest # {}
                         /\ \A q \in rest : g.players[q + 1].gaveup
          IN  /\ (last'.ret = AllGiveup) <=> allGave
              /\ allGave => g'.words = Forfeited(g.words)
              /\ (\E q \in rest : ~g.players[q + 1].gaveup) =>
                     /\ last'.ret = NoResult
                     /\ g'.words = g.words]_vars

\* C13 witness: a player that had not given up has quit, the two players that
\* stay had given up, and a word has been forfeited
C13_Witness ==
    /\ last.op = "quit"
    /\ last.ret = AllGiveup
    /\ Cardinality(Connected(g)) = 2
    /\ \E w \in DOMAIN g.words : g.words[w] = Gaveup
    /\ \E w \in DOMAIN g.words : g.words[w] = Player(last.pnum)

\* the roster positions (1-based) of the players called name
Slots(gm, name) == {i \in 1..Len(gm.players) : gm.players[i].name = name}

\* C17: no two connected players have the same name; try_join with the name of
\* a connected player returns Taken with the handle and changes nothing;
\* with the name of a player that has quit it puts the handle into that
\* player's slot and appends nothing; only a name the roster does not hold
\* appends a player.
C17_UniqueNames ==
    [][/\ \A m, n \in Connected(g') :
              g'.players[m + 1].name = g'.players[n + 1].name => m = n
       /\ last'.op = "try_join" =>
              LET held == Slots(g, last'.arg)
              IN  IF \E i \in held : ~did_quit(g.players[i])
                  THEN /\ last'.ret = JoinTaken(nconn')
                       /\ g' = g
                  ELSE IF held # {}
                       THEN \E i \in held :
                                /\ last'.ret = JoinOk(i - 1)
                                /\ g' = [g EXCEPT !.players[i].send = nconn']
                       ELSE /\ last'.ret = JoinOk(Len(g.players))
                            /\ g'.players = Append(g.players,
                                   CoopPlayer_new(last'.arg, nconn'))
                            /\ g'.words = g.words]_vars

\* C17 witness: a join under the name of a connected player was turned down
\* while another player of the roster had quit
C17_Witness ==
    /\ last.op = "try_join"
    /\ last.ret[1] = "Taken"
    /\ Len(g.players) = 2
    /\ Cardinality(Connected(g)) = 1

\* the pc values of a thread that holds the lock of its game and is about to
\* run join_coop 156-165, a branch of game_loop, or on_disconnect 235-248
BodyPCs == {"join_try", "cmd_body", "disc_body"}

\* the handles of the connected players of gm
Handles(gm) ==
    {gm.players[i].send : i \in {j \in 1..Len(gm.players) : ~did_quit(gm.players[j])}}

\* the first tokens of the frames announce_msg is called with
Announced == {":join", ":quit", ":attempt", ":giveup", ":ungiveup", ":chat"}

\* C14 (as stated): every frame announced by a step of thread t, ":allgiveup"
\* included, goes to every other connected player of t's game and not to t.
C14_ExcludesOriginator ==
    [][\A t \in Threads :
          (pc[t] \in BodyPCs /\ pc'[t] # pc[t]) =>
              \A i \in 1..Len(sent') :
                  sent'[i].msg[1] \in Announced \cup {":allgiveup"} =>
                      sent'[i].to = Handles(game'[game_entry[t]]) \ {t}]_vars

\* C14 (amended): every ":join", ":quit", ":attempt", ":giveup", ":ungiveup"
\* and ":chat" frame announced by a step of thread t goes to every other
\* connected player of t's game and not to t; an ":allgiveup" frame goes to
\* every connected player of the game, t included when t is still one.
C14_ExcludesOriginatorButAllGiveup ==
    [][\A t \in Threads :
          (pc[t] \in BodyPCs /\ pc'[t] # pc[t]) =>
              \A i \in 1..Len(sent') :
                  /\ sent'[i].msg[1] \in Announced =>
                         sent'[i].to = Handles(game'[game_entry[t]]) \ {t}
                  /\ sent'[i].msg[1] = ":allgiveup" =>
                         sent'[i].to = Handles(game'[game_entry[t]])]_vars

\* C14 witness: a ":giveup" went to the one other player, and the ":allgiveup"
\* it brought about went to both players
C14_Witness ==
    /\ Len(sent) = 2
    /\ sent[1].msg[1] = ":giveup"
    /\ Cardinality(sent[1].to) = 1
    /\ sent[2].msg = <<":allgiveup">>
    /\ Cardinality(sent[2].to) = 2
    /\ sent[1].to \subseteq sent[2].to

\* the pc values of a thread between game.lock() and the drop of the guard
LockedPCs == BodyPCs \cup {"host_send"}

\* the threads inside a locked section of the game of entry e
InSection(e) == {t \in Threads : pc[t] \in LockedPCs /\ game_entry[t] = e}

\* sent holds a frame announce_msg has sent
HasBroadcast(out) ==
    \E i \in 1..Len(out) : out[i].msg[1] \in Announced \cup {":allgiveup"}

\* C15: the commands of one game are applied one at a time, each by the
\* thread that holds the game's lock, and what a command announces is sent in
\* that same locked section: at most one thread is inside a locked section of
\* a game, and it is the holder of the lock; a shared game changes only in a
\* step of the holder, which sends the frames announcing the change before
\* it gives the lock up; and no frame is announced by any other step.  So the
\* frames of two commands reach every player in the order the commands were
\* applied in.
C15_Linearized ==
    [][/\ \A e \in Threads :
              /\ \A t \in InSection(e)' : gameLock'[e] = t
              /\ (game[e] # NoGame /\ game'[e] # game[e]) =>
                     /\ gameLock[e] \in InSection(e)
                     /\ pc[gameLock[e]] \in BodyPCs
                     /\ pc'[gameLock[e]] \notin LockedPCs
                     /\ gameLock'[e] = 0
                     /\ HasBroadcast(sent')
       /\ HasBroadcast(sent') =>
              \E t \in Threads :
                  /\ pc[t] \in BodyPCs
                  /\ gameLock[game_entry[t]] = t
                  /\ pc'[t] \notin LockedPCs
                  /\ \A u \in Threads \ {t} : pc'[u] = pc[u]
                  /\ \A e \in Threads \ {game_entry[t]} : game'[e] = game[e]]_vars

\* C15 witness: thread 1 has announced a command of a game with two connected
\* players and given the lock up, and thread 2, which was waiting for the
\* lock of that game with a command of its own, can take it now
C15_Witness ==
    /\ HasBroadcast(sent)
    /\ pc[1] = "loop"
    /\ pc[2] = "cmd_lock"
    /\ game_entry[1] = game_entry[2]
    /\ gameLock[game_entry[1]] = 0
    /\ Cardinality(Handles(game[game_entry[1]])) = 2
    /\ Cardinality(sent[1].to) = 1

\* what the frames of on_playerjoin and of announce_msg say about a game: the
\* roster with the quit mark and the gaveup flag of each player, and for each
\* word the name of the player that has it, "_" for Gaveup, "" for NoOne
View(gm) ==
    [players |-> [i \in 1..Len(gm.players) |->
                     [name |-> gm.players[i].name,
                      quit |-> did_quit(gm.players[i]),
                      gaveup |-> gm.players[i].gaveup]],
     words |-> [w \in DOMAIN gm.words |->
                   IF gm.words[w][1] = "Player"
                   THEN gm.players[gm.words[w][2] + 1].name
                   ELSE IF gm.words[w] = Gaveup THEN "_" ELSE ""]]

\* the View the frames of on_playerjoin spell out
Rebuild(st) ==
    [players |-> [i \in 1..Len(st.players) |->
                     LET n == CHOOSE x \in Names : st.players[i] \in {x, Marked(x)}
                     IN  [name |-> n,
                          quit |-> st.players[i] = Marked(n),
                          gaveup |-> \E j \in 1..Len(st.giveups) :
                                         st.giveups[j] = <<":giveup", n>>]],
     words |-> [w \in st.words |->
                   IF \E a \in st.attempts : a[2] = w
                   THEN (CHOOSE a \in st.attempts : a[2] = w)[3]
                   ELSE ""]]

\* the View after a frame of announce_msg, as the call sites of announce_msg
\* pair each frame with a change of the game
ApplyFrame(v, m) ==
    LET at(n) == {i \in 1..Len(v.players) : v.players[i].name = n}
    IN  CASE m[1] = ":join" ->
                 IF at(m[2]) # {}
                 THEN [v EXCEPT !.players = [i \in 1..Len(v.players) |->
                          IF i \in at(m[2])
                          THEN [v.players[i] EXCEPT !.quit = FALSE]
                          ELSE v.players[i]]]
                 ELSE [v EXCEPT !.players =
                          Append(@, [name |-> m[2], quit |-> FALSE, gaveup |-> FALSE])]
          [] m[1] = ":quit" ->
                 [v EXCEPT !.players = [i \in 1..Len(v.players) |->
                     IF i \in at(m[2])
                     THEN [v.players[i] EXCEPT !.quit = TRUE, !.gaveup = FALSE]
                     ELSE v.players[i]]]
          [] m[1] = ":attempt" -> [v EXCEPT !.words[m[2]] = m[3]]
          [] m[1] \in {":giveup", ":ungiveup"} ->
                 [v EXCEPT !.players = [i \in 1..Len(v.players) |->
                     IF i \in at(m[2])
                     THEN [v.players[i] EXCEPT !.gaveup = (m[1] = ":giveup")]
                     ELSE v.players[i]]]
          [] m[1] = ":allgiveup" ->
                 [v EXCEPT !.words = [w \in DOMAIN v.words |->
                     IF v.words[w] = "" THEN "_" ELSE v.words[w]]]
          [] OTHER -> v

\* the View after the frames of out, from the i-th on, that went to handle h
RECURSIVE ApplySent(_, _, _, _)
ApplySent(v, out, h, i) ==
    IF i > Len(out)
    THEN v
    ELSE ApplySent(IF h \in out[i].to THEN ApplyFrame(v, out[i].msg) ELSE v,
                   out, h, i + 1)

\* thread t ends join_coop with Ok(n) in this step: under the one lock it has
\* taken, try_join is applied, ":join name" goes to every other connected
\* player, and the frames for t spell out the game as try_join has left it
JoinSnapshot(t) ==
    (pc[t] = "join_try" /\ pc'[t] = "loop") =>
        LET e == game_entry[t]
        IN  /\ gameLock[e] = t
            /\ gameLock'[e] = 0
            /\ game'[e] = try_join(game[e], pname[t], t).game
            /\ Len(sent') = 2
            /\ sent'[1].msg = <<":join", pname[t]>>
            /\ sent'[1].to = Handles(game'[e]) \ {t}
            /\ sent'[2].to = {t}
            /\ Rebuild(sent'[2].state) = View(game'[e])

\* while thread t is between its lock() and the end of join_coop, a step of
\* another thread neither changes t's game nor sends a frame to its players
JoinNotInterleaved(t) ==
    (pc[t] = "join_try" /\ pc'[t] = "join_try") =>
        /\ game'[game_entry[t]] = game[game_entry[t]]
        /\ \A i \in 1..Len(sent') :
               sent'[i].to \cap Handles(game[game_entry[t]]) = {}

\* the frames a step sends to the connected player with handle h turn the View
\* of the game before the step into the View after it
Conveyed(e, h) ==
    ApplySent(View(game[e]), sent', h, 1) = View(game'[e])

\* the same for the words alone
ConveyedWords(e, h) ==
    ApplySent(View(game[e]), sent', h, 1).words = View(game'[e]).words

\* the handles of the players of entry e that are connected before and after
\* the step and whose threads are in game_loop
Listeners(e) ==
    {h \in Handles(game[e]) \cap Handles(game'[e]) :
        pc[h] \in {"loop", "cmd_lock", "cmd_body", "disc_lock"}}

C18_GiveupAnnounced ==
    [][last'.op = "giveup" =>
          LET p == last'.pnum
              me == g.players[p + 1]
              allDone == \A q \in Connected(g) \ {p} : g.players[q + 1].gaveup
          IN  /\ Len(sent') >= 1
              /\ sent'[1].msg = <<":giveup", me.name>>
              /\ sent'[1].to = Handles(g) \ {me.send}
              /\ g'.players = [g.players EXCEPT ![p + 1].gaveup = TRUE]
              /\ IF allDone
                 THEN /\ g'.words = Forfeited(g.words)
                      /\ Len(sent') = 2
                      /\ sent'[2].msg = <<":allgiveup">>
                      /\ sent'[2].to # {}
                 ELSE /\ g'.words = g.words
                      /\ Len(sent') = 1]_vars

\* C18 witness: the last of three connected players has given up: the two
\* others were sent its ":giveup", ":allgiveup" followed, a word was forfeited
C18_Witness ==
    /\ last.op = "giveup"
    /\ Len(sent) = 2
    /\ Cardinality(sent[1].to) = 2
    /\ sent[2].msg = <<":allgiveup">>
    /\ Cardinality(Connected(g)) = 3
    /\ \E w \in DOMAIN g.words : g.words[w] = Gaveup

\* C20: in game_loop an attempt is announced, to the other players, only if
\* it has succeeded; an attempt that fails, a frame with a word ATTEMPT does
\* not capture, a chat frame and a frame that is no command leave the game
\* as it was; and but for the chat frame they send nothing.
C20_FailuresAreSilent ==
    [][/\ last'.op = "attempt" =>
              IF last'.ret = TRUE
              THEN /\ Len(sent') = 1
                   /\ sent'[1].msg = <<":attempt", last'.arg,
                                       g.players[last'.pnum + 1].name>>
                   /\ sent'[1].to = Handles(g) \ {g.players[last'.pnum + 1].send}
              ELSE g' = g /\ sent' = <<>>
       /\ last'.op = "other" => (g' = g /\ sent' = <<>>)
       /\ last'.op = "chat" => g' = g]_vars

\* C20 witness: with two players connected, one has attempted a word the
\* other one has, and nothing was sent
C20_Witness ==
    /\ last.op = "attempt"
    /\ last.ret = FALSE
    /\ sent = <<>>
    /\ Cardinality(Connected(g)) = 2
    /\ last.arg \in DOMAIN g.words
    /\ g.words[last.arg][1] = "Player"
    /\ g.words[last.arg] # Player(last.pnum)
    /\ g.words[last.arg][2] \in Connected(g)

\* C19: host_coop returns a game only if every token of the host's first
\* message is a word of 3 to 6 lowercase letters, with or without the trailing
\* "_": every word of a game is such a word, one ATTEMPT can capture.
C19_OnlyValidWordsHosted ==
    \A w \in DOMAIN g.words : ATTEMPT_captures(w)

\* thread t holds the read or the write lock of coop_games, the Mutex of a
\* game, the Mutex of a connections counter
HoldsReg(t) == regWriter = t \/ t \in regReaders
HoldsGame(t) == \E e \in Threads : gameLock[e] = t
HoldsConn(t) == \E e \in Threads : connLock[e] = t

\* the next step of thread t is coop_games.write(), coop_games.read(),
\* game.lock(), connections.lock() (the one inside wait_timeout included)
WantsRegWrite(t) == pc[t] \in {"host_wlock", "timed_out"}
WantsRegRead(t) == pc[t] = "join_rlock"
WantsGame(t) == pc[t] \in {"host_sendname", "join_lock", "cmd_lock", "disc_lock"}
WantsConn(t) == pc[t] \in {"join_clock", "dec_lock", "wake_timeout", "wake_saved"}

\* the threads that hold the lock thread t is waiting for
Blockers(t) ==
    {u \in Threads \ {t} :
        \/ WantsRegWrite(t) /\ HoldsReg(u)
        \/ WantsRegRead(t) /\ regWriter = u
        \/ WantsGame(t) /\ gameLock[game_entry[t]] = u
        \/ WantsConn(t) /\ connLock[game_entry[t]] = u}

\* some threads wait for locks that threads among them hold
WaitCycle ==
    \E S \in SUBSET Threads : S # {} /\ \A t \in S : Blockers(t) \cap S # {}

\* C21: over all interleavings of the threads, no thread that holds the lock
\* of coop_games is about to wait for the lock of a game or of a connections
\* counter, no thread that holds the lock of a game is about to wait for the
\* lock of coop_games, and no threads wait in a cycle for locks held by each
\* other.
C21_NoLockNesting ==
    /\ \A t \in Threads :
           /\ HoldsReg(t) => ~WantsGame(t) /\ ~WantsConn(t)
           /\ HoldsGame(t) => ~WantsRegWrite(t) /\ ~WantsRegRead(t)
    /\ ~WaitCycle

\* C21 witness: the timer thread of a game removes it under the write lock
\* while a join waits for the read lock, and no one waits for the timer thread
\* in turn
C21_Witness ==
    /\ pc[1] = "destroy"
    /\ regWriter = 1
    /\ pc[2] = "join_rlock"
    /\ Blockers(2) = {1}
    /\ Blockers(1) = {}

====
